---- MODULE Spec2Model ----
(***************************************************************************)
(* The advanced allocator of custom-malloc (src/src/mymalloc_adv.c): a     *)
(* segregated free list over a static 1 MB arena, with boundary tags,      *)
(* block splitting and coalescing.                                         *)
(*                                                                         *)
(* The arena is modelled as memory: a map from byte addresses of 8-byte    *)
(* words to the word stored there.  Block headers and footers live in that *)
(* memory exactly where the C code puts them (LP64 layout: sizeof(Block)   *)
(* is 48, sizeof(size_t) is 8), so a stale header, a header overwritten by *)
(* payload data and a copy that runs past a block are all representable.   *)
(* Words that were never written, or that hold 0, are absent from the map  *)
(* (a static array starts zeroed).                                         *)
(*                                                                         *)
(* size_t is modelled with SizeBits bits instead of 64: all arithmetic on  *)
(* sizes is taken modulo 2^SizeBits, and SIZE_MAX is 2^SizeBits - 1.       *)
(***************************************************************************)
EXTENDS Integers, Sequences, FiniteSets, TLC

----------------------------------------------------------------------------
(* Program constants *)

HEAP_SIZE == 1024 * 1024
ALIGN == 8
NUM_BINS == 6

\* sizeof(Block): size_t, int (+4 padding), four pointers.
SizeofBlock == 48
\* sizeof(size_t)
SizeofSizeT == 8

\* Byte offsets of the fields of struct Block.
OFF_SIZE == 0
OFF_FREE == 8
OFF_PREV_PHYS == 16
OFF_NEXT_PHYS == 24
OFF_PREV_FREE == 32
OFF_NEXT_FREE == 40

NULL == 0

\* The address of heap[0]; the array is 8-aligned. It lies above every size
\* the arena can hold, as the addresses of a process image do, so that a size
\* read as a pointer is no address of the arena.
HeapBase == 4 * HEAP_SIZE
HeapEnd == HeapBase + HEAP_SIZE

----------------------------------------------------------------------------
(* Bounds of the model *)

\* Width of size_t in the model.
SizeBits == 24
\* Number of steps of the client (calls of the allocator and stores into its
\* payloads) in one behaviour of Spec.
MaxOps == 4
\* Number of calls in one behaviour of SpecCalls.
MaxCalls == 5
\* Number of calls in one behaviour of SpecAllocFree and of SpecReuse.
MaxSeqOps == 6

SizeMod == 2 ^ SizeBits
SIZE_MAX == SizeMod - 1

----------------------------------------------------------------------------
(* Memory *)

\* A word address the program may dereference as size_t / int / pointer.
ValidWord(a) == a >= HeapBase /\ a + 8 <= HeapEnd /\ a % 8 = 0

Rd(mem, a) == IF a \in DOMAIN mem THEN mem[a] ELSE 0

Wr(mem, a, v) ==
    IF v = 0
    THEN [x \in DOMAIN mem \ {a} |-> mem[x]]
    ELSE [x \in DOMAIN mem \cup {a} |-> IF x = a THEN v ELSE mem[x]]

\* The machine state threaded through the C functions:
\*   mem  the arena, bin the array of list heads, heap_start,
\*   heap_initialized, and err: "none", or what stopped the call
\*   ("fault": an access outside the arena or misaligned, which is undefined
\*   behaviour; "hang": a list scan that never ends).
Load(s, a) == Rd(s.mem, a)

\* A read through pointer a: undefined outside the arena.
Chk(s, a) ==
    IF s.err # "none" THEN s
    ELSE IF ValidWord(a) THEN s
    ELSE [s EXCEPT !.err = "fault"]

Store(s, a, v) ==
    IF s.err # "none" THEN s
    ELSE IF ValidWord(a) THEN [s EXCEPT !.mem = Wr(@, a, v)]
    ELSE [s EXCEPT !.err = "fault"]

\* The low k bytes of a word (little-endian: the bytes at the lowest
\* addresses), for k in 0..7.
LowBytes(v, k) == IF 8 * k >= SizeBits THEN v ELSE v % (2 ^ (8 * k))

\* memset(p, 0, n)
memset0(s, p, n) ==
    IF s.err # "none" \/ n = 0 THEN s
    ELSE IF ~(p >= HeapBase /\ p + n <= HeapEnd /\ p % 8 = 0)
    THEN [s EXCEPT !.err = "fault"]
    ELSE LET full == (n \div 8) * 8
             k == n % 8
             m1 == [x \in {a \in DOMAIN s.mem : ~(a >= p /\ a < p + full)}
                       |-> s.mem[x]]
             last == p + full
             m2 == IF k = 0 THEN m1
                   ELSE Wr(m1, last, Rd(m1, last) - LowBytes(Rd(m1, last), k))
         IN  [s EXCEPT !.mem = m2]

\* memcpy(dst, src, n)
memcpy(s, dst, src, n) ==
    IF s.err # "none" \/ n = 0 THEN s
    ELSE IF ~(/\ dst >= HeapBase /\ dst + n <= HeapEnd /\ dst % 8 = 0
              /\ src >= HeapBase /\ src + n <= HeapEnd /\ src % 8 = 0)
    THEN [s EXCEPT !.err = "fault"]
    ELSE LET full == (n \div 8) * 8
             k == n % 8
             old == s.mem
             keep == {a \in DOMAIN old : ~(a >= dst /\ a < dst + full)}
             moved == {a - src + dst : a \in {x \in DOMAIN old :
                                               x >= src /\ x < src + full}}
             m1 == [x \in keep \cup moved |->
                       IF x >= dst /\ x < dst + full
                       THEN old[x - dst + src] ELSE old[x]]
             dl == dst + full
             sl == src + full
             m2 == IF k = 0 THEN m1
                   ELSE Wr(m1, dl, Rd(m1, dl) - LowBytes(Rd(m1, dl), k)
                                    + LowBytes(Rd(old, sl), k))
         IN  [s EXCEPT !.mem = m2]

----------------------------------------------------------------------------
(* The allocator's functions, in the order of the source. A function of   *)
(* several statements is the composition of its statements: each operator *)
(* below takes the machine state before and yields the state after.       *)

align8(n) == (((n + 7) % SizeMod) \div 8) * 8

write_footer(s, b) ==
    Store(Chk(s, b + OFF_SIZE), b + SizeofBlock + Load(s, b + OFF_SIZE),
          Load(s, b + OFF_SIZE))

size_to_bin(size) ==
    IF size <= 64 THEN 0
    ELSE IF size <= 128 THEN 1
    ELSE IF size <= 256 THEN 2
    ELSE IF size <= 512 THEN 3
    ELSE IF size <= 1024 THEN 4
    ELSE 5

\* insert_free once idx is computed.
insert_free_at(s, b, idx) ==
    LET link(t) == Store(Store(t, b + OFF_PREV_FREE, NULL),
                         b + OFF_NEXT_FREE, t.bin[idx])
        head(t) == IF t.bin[idx] # NULL
                   THEN Store(t, t.bin[idx] + OFF_PREV_FREE, b)
                   ELSE t
    IN  [head(link(s)) EXCEPT !.bin[idx] = b]

insert_free(s, b) ==
    insert_free_at(Chk(s, b + OFF_SIZE), b, size_to_bin(Load(s, b + OFF_SIZE)))

\* remove_free once idx is computed.
remove_free_at(s, b, idx) ==
    LET prev(t) == IF Load(t, b + OFF_PREV_FREE) # NULL
                   THEN Store(t, Load(t, b + OFF_PREV_FREE) + OFF_NEXT_FREE,
                              Load(t, b + OFF_NEXT_FREE))
                   ELSE [t EXCEPT !.bin[idx] = Load(t, b + OFF_NEXT_FREE)]
        next(t) == IF Load(t, b + OFF_NEXT_FREE) # NULL
                   THEN Store(t, Load(t, b + OFF_NEXT_FREE) + OFF_PREV_FREE,
                              Load(t, b + OFF_PREV_FREE))
                   ELSE t
        clear(t) == Store(Store(t, b + OFF_NEXT_FREE, NULL),
                          b + OFF_PREV_FREE, NULL)
    IN  clear(next(prev(s)))

remove_free(s, b) ==
    remove_free_at(Chk(Chk(Chk(s, b + OFF_SIZE), b + OFF_PREV_FREE),
                       b + OFF_NEXT_FREE),
                   b, size_to_bin(Load(s, b + OFF_SIZE)))

heap_init(s) ==
    LET hs == HeapBase
        block(t) == Store(Store(Store(Store([t EXCEPT !.heap_start = hs],
                        hs + OFF_SIZE, HEAP_SIZE - SizeofBlock - SizeofSizeT),
                        hs + OFF_FREE, 1),
                        hs + OFF_NEXT_PHYS, NULL),
                        hs + OFF_PREV_PHYS, NULL)
        bins(t) == [t EXCEPT !.bin = [i \in 0..(NUM_BINS - 1) |-> NULL]]
    IN  [insert_free(bins(write_footer(block(s), hs)), hs)
            EXCEPT !.heap_initialized = 1]

\* The while loop of find_fit over one list. The result is [b, err]. fuel
\* is the number of nodes the list can hold before it must repeat one.
RECURSIVE scan_list(_, _, _, _)
scan_list(s, b, size, fuel) ==
    IF b = NULL THEN [b |-> NULL, err |-> "none"]
    ELSE IF ~(ValidWord(b + OFF_SIZE) /\ ValidWord(b + OFF_NEXT_FREE))
    THEN [b |-> NULL, err |-> "fault"]
    ELSE IF fuel = 0 THEN [b |-> NULL, err |-> "hang"]
    ELSE IF Load(s, b + OFF_SIZE) >= size THEN [b |-> b, err |-> "none"]
    ELSE scan_list(s, Load(s, b + OFF_NEXT_FREE), size, fuel - 1)

\* The for loop of find_fit, from bin i.
RECURSIVE scan_bins(_, _, _)
scan_bins(s, i, size) ==
    IF i >= NUM_BINS THEN [b |-> NULL, err |-> "none"]
    ELSE LET r == scan_list(s, s.bin[i], size, Cardinality(DOMAIN s.mem) + 2)
         IN  IF r.err # "none" \/ r.b # NULL THEN r
             ELSE scan_bins(s, i + 1, size)

\* find_fit that looks in the bin of the request only.
find_fit_own_bin(s, size) ==
    scan_list(s, s.bin[size_to_bin(size)], size, Cardinality(DOMAIN s.mem) + 2)

\* find_fit that starts one bin above the bin of the request.
find_fit_next_bin(s, size) == scan_bins(s, size_to_bin(size) + 1, size)

find_fit(s, size) == scan_bins(s, size_to_bin(size), size)

\* split_block that never splits.
split_block_never(s, b, size) == Chk(s, b + OFF_SIZE)

split_block(s, b, size) ==
    LET remaining == (Load(s, b + OFF_SIZE) - size) % SizeMod
        newb == b + SizeofBlock + size + SizeofSizeT
        fresh(t) == Store(Store(Store(t,
                        newb + OFF_SIZE,
                        (remaining - SizeofBlock - SizeofSizeT) % SizeMod),
                        newb + OFF_FREE, 1),
                        newb + OFF_PREV_PHYS, b)
        next(t) == Store(t, newb + OFF_NEXT_PHYS, Load(t, b + OFF_NEXT_PHYS))
        back(t) == IF Load(t, b + OFF_NEXT_PHYS) # NULL
                   THEN Store(t, Load(t, b + OFF_NEXT_PHYS) + OFF_PREV_PHYS,
                              newb)
                   ELSE t
        orig(t) == Store(Store(t, b + OFF_NEXT_PHYS, newb), b + OFF_SIZE, size)
    IN  IF Chk(s, b + OFF_SIZE).err # "none" THEN Chk(s, b + OFF_SIZE)
        ELSE IF remaining < SizeofBlock + SizeofSizeT + ALIGN THEN s
        ELSE insert_free(
                 write_footer(write_footer(orig(back(next(fresh(s)))), b),
                              newb),
                 newb)

\* my_malloc once the heap is initialised, size is rounded and find_fit has
\* returned r. The result is [s, ret]: the state after the call and the
\* pointer returned.
my_malloc_fit(s, size, r) ==
    IF r.err # "none" THEN [s |-> [s EXCEPT !.err = r.err], ret |-> NULL]
    ELSE IF r.b = NULL THEN [s |-> s, ret |-> NULL]
    ELSE [s |-> write_footer(
                    Store(split_block(remove_free(s, r.b), r.b, size),
                          r.b + OFF_FREE, 0),
                    r.b),
          ret |-> r.b + SizeofBlock]

\* my_malloc once the heap is initialised and size is rounded.
my_malloc_aligned(s, size) == my_malloc_fit(s, size, find_fit(s, size))

my_malloc(s, size) ==
    my_malloc_aligned(IF s.heap_initialized = 0 THEN heap_init(s) ELSE s,
                      align8(size))

\* The first if of coalesce: the merge with the next block.
coalesce_next(s, b) ==
    LET nx == Load(s, b + OFF_NEXT_PHYS)
        s0 == Chk(s, b + OFF_NEXT_PHYS)
        grow(t) == Store(t, b + OFF_SIZE,
                       (Load(t, b + OFF_SIZE) + SizeofBlock + SizeofSizeT
                          + Load(t, Load(t, b + OFF_NEXT_PHYS) + OFF_SIZE))
                       % SizeMod)
        next(t) == Store(t, b + OFF_NEXT_PHYS,
                       Load(t, Load(t, b + OFF_NEXT_PHYS) + OFF_NEXT_PHYS))
        back(t) == IF Load(t, b + OFF_NEXT_PHYS) # NULL
                   THEN Store(t, Load(t, b + OFF_NEXT_PHYS) + OFF_PREV_PHYS, b)
                   ELSE t
    IN  IF nx = NULL THEN s0
        ELSE IF Load(s, nx + OFF_FREE) = 0 THEN Chk(s0, nx + OFF_FREE)
        ELSE write_footer(
                 back(next(grow(remove_free(Chk(s0, nx + OFF_FREE), nx)))), b)

\* The second if of coalesce: the merge into the previous block.
coalesce_prev(s, b) ==
    LET pv == Load(s, b + OFF_PREV_PHYS)
        s0 == Chk(s, b + OFF_PREV_PHYS)
        grow(t) == Store(t, Load(t, b + OFF_PREV_PHYS) + OFF_SIZE,
                       (Load(t, Load(t, b + OFF_PREV_PHYS) + OFF_SIZE)
                          + SizeofBlock + SizeofSizeT + Load(t, b + OFF_SIZE))
                       % SizeMod)
        next(t) == Store(t, Load(t, b + OFF_PREV_PHYS) + OFF_NEXT_PHYS,
                       Load(t, b + OFF_NEXT_PHYS))
        back(t) == IF Load(t, b + OFF_NEXT_PHYS) # NULL
                   THEN Store(t, Load(t, b + OFF_NEXT_PHYS) + OFF_PREV_PHYS,
                              Load(t, b + OFF_PREV_PHYS))
                   ELSE t
        foot(t) == write_footer(t, Load(t, b + OFF_PREV_PHYS))
    IN  IF pv = NULL THEN s0
        ELSE IF Load(s, pv + OFF_FREE) = 0 THEN Chk(s0, pv + OFF_FREE)
        ELSE foot(back(next(grow(remove_free(Chk(s0, pv + OFF_FREE), pv)))))

\* The end of coalesce: merged tells whether the second if was taken, and so
\* whether b has become b->prev_phys.
coalesce_insert(s, b, merged) ==
    insert_free(s, IF merged THEN Load(s, b + OFF_PREV_PHYS) ELSE b)

\* coalesce after its first if.
coalesce_rest(s, b) ==
    coalesce_insert(coalesce_prev(s, b), b,
                    /\ Load(s, b + OFF_PREV_PHYS) # NULL
                    /\ Load(s, Load(s, b + OFF_PREV_PHYS) + OFF_FREE) # 0)

\* coalesce without its second if.
coalesce_forward_only(s, b) == coalesce_insert(coalesce_next(s, b), b, FALSE)

coalesce(s, b) == coalesce_rest(coalesce_next(s, b), b)

\* The result is [s, msg]: msg is what my_free prints on stderr ("none",
\* "outside" or "double").
my_free(s, ptr) ==
    LET b == ptr - SizeofBlock
    IN  IF ptr = NULL THEN [s |-> s, msg |-> "none"]
        ELSE IF ptr < HeapBase \/ ptr >= HeapEnd THEN [s |-> s, msg |-> "outside"]
        ELSE IF Chk(s, b + OFF_FREE).err # "none"
        THEN [s |-> Chk(s, b + OFF_FREE), msg |-> "none"]
        ELSE IF Load(s, b + OFF_FREE) # 0 THEN [s |-> s, msg |-> "double"]
        ELSE [s |-> coalesce(Store(s, b + OFF_FREE, 1), b), msg |-> "none"]

\* my_calloc once my_malloc(total) has returned r.
my_calloc_zero(r, total) ==
    IF r.ret # NULL THEN [s |-> memset0(r.s, r.ret, total), ret |-> r.ret]
    ELSE r

my_calloc(s, n, sz) ==
    my_calloc_zero(my_malloc(s, (n * sz) % SizeMod), (n * sz) % SizeMod)

\* my_realloc_move that gives ptr up when the allocation has failed.
my_realloc_move_release(ptr, r) ==
    IF r.s.err # "none" THEN [s |-> r.s, ret |-> NULL]
    ELSE IF r.ret = NULL THEN [s |-> my_free(r.s, ptr).s, ret |-> NULL]
    ELSE [s |-> my_free(memcpy(r.s, r.ret, ptr,
                               Load(r.s, ptr - SizeofBlock + OFF_SIZE)),
                        ptr).s,
          ret |-> r.ret]

\* my_realloc once my_malloc(size) has returned r.
my_realloc_move(ptr, r) ==
    IF r.s.err # "none" \/ r.ret = NULL THEN [s |-> r.s, ret |-> NULL]
    ELSE [s |-> my_free(memcpy(r.s, r.ret, ptr,
                               Load(r.s, ptr - SizeofBlock + OFF_SIZE)),
                        ptr).s,
          ret |-> r.ret]

\* my_realloc with a block that is large enough cut down to the size asked
\* for.
my_realloc_shrink(s, ptr, size) ==
    LET b == ptr - SizeofBlock
    IN  IF ptr = NULL THEN my_malloc(s, size)
        ELSE IF Chk(s, b + OFF_SIZE).err # "none"
        THEN [s |-> Chk(s, b + OFF_SIZE), ret |-> NULL]
        ELSE IF Load(s, b + OFF_SIZE) >= size
        THEN [s |-> write_footer(Store(s, b + OFF_SIZE, align8(size)), b),
              ret |-> ptr]
        ELSE my_realloc_move(ptr, my_malloc(s, size))

my_realloc(s, ptr, size) ==
    LET b == ptr - SizeofBlock
    IN  IF ptr = NULL THEN my_malloc(s, size)
        ELSE IF Chk(s, b + OFF_SIZE).err # "none"
        THEN [s |-> Chk(s, b + OFF_SIZE), ret |-> NULL]
        ELSE IF Load(s, b + OFF_SIZE) >= size THEN [s |-> s, ret |-> ptr]
        ELSE my_realloc_move(ptr, my_malloc(s, size))

----------------------------------------------------------------------------
(* The program and its client *)

VARIABLES
    mem,               \* heap[]: word address -> non-zero word
    bin,               \* bin[NUM_BINS]
    heap_start,
    heap_initialized,
    crashed,           \* "none", or how the process stopped: "fault" / "hang"
    live,              \* the client's allocations: pointer -> bytes asked for
    released,          \* pointers released and not returned again since
    last,              \* the last call: [op, a, b, ret, msg]
    nops               \* number of steps the client has made

vars == <<mem, bin, heap_start, heap_initialized, crashed, live, released,
          last, nops>>

\* The values the client passes.
MallocSizes == {0, 24, HEAP_SIZE, SIZE_MAX}
\* (count, elemSize): a product that fits, and one that does not.
CallocArgs == {<<8, 8>>, <<2 ^ (SizeBits - 12) + 1, 4096>>}
ReallocSizes == {8, 200, HEAP_SIZE, SIZE_MAX}
\* What the client stores in its payloads: word index and word.
WriteIdx == {1, 2}
UserVals == {1, 104}

Machine == [mem |-> mem, bin |-> bin, heap_start |-> heap_start,
            heap_initialized |-> heap_initialized, err |-> "none"]

\* The state after a call that ended in machine state s.
Commit(s) ==
    /\ mem' = s.mem
    /\ bin' = s.bin
    /\ heap_start' = s.heap_start
    /\ heap_initialized' = s.heap_initialized
    /\ crashed' = s.err

\* A step of the client.
Step == crashed = "none" /\ nops' = nops + 1

Without(f, p) == [x \in DOMAIN f \ {p} |-> f[x]]
With(f, p, v) == [x \in DOMAIN f \cup {p} |-> IF x = p THEN v ELSE f[x]]

\* The client's bookkeeping after an allocation returned ret for n bytes.
Allocated(ret, n) ==
    IF ret = NULL
    THEN UNCHANGED <<live, released>>
    ELSE /\ live' = With(live, ret, n)
         /\ released' = released \ {ret}

\* The client's bookkeeping after my_realloc(p, n) returned ret.
Reallocated(p, ret, n) ==
    IF ret = NULL
    THEN UNCHANGED <<live, released>>
    ELSE IF ret = p
    THEN /\ live' = With(live, p, n)
         /\ UNCHANGED released
    ELSE /\ live' = With(Without(live, p), ret, n)
         /\ released' = (released \ {ret})
                            \cup (IF p \in DOMAIN live THEN {p} ELSE {})

Init ==
    /\ mem = << >>
    /\ bin = [i \in 0..(NUM_BINS - 1) |-> NULL]
    /\ heap_start = NULL
    /\ heap_initialized = 0
    /\ crashed = "none"
    /\ live = << >>
    /\ released = {}
    /\ last = [op |-> "start", a |-> 0, b |-> 0, ret |-> NULL, msg |-> "none"]
    /\ nops = 0

\* The call my_malloc(size) returned r.
MallocReturns(size, r) ==
    /\ Commit(r.s)
    /\ Allocated(r.ret, size)
    /\ last' = [op |-> "malloc", a |-> size, b |-> 0, ret |-> r.ret,
                msg |-> "none"]

Malloc(size) == Step /\ MallocReturns(size, my_malloc(Machine, size))

\* The call my_calloc(n, sz) returned r.
CallocReturns(n, sz, r) ==
    /\ Commit(r.s)
    /\ Allocated(r.ret, n * sz)
    /\ last' = [op |-> "calloc", a |-> n, b |-> sz, ret |-> r.ret,
                msg |-> "none"]

Calloc(n, sz) == Step /\ CallocReturns(n, sz, my_calloc(Machine, n, sz))

\* The call my_free(p) returned r.
FreeReturns(p, r) ==
    /\ Commit(r.s)
    /\ live' = Without(live, p)
    /\ released' = IF p = NULL THEN released ELSE released \cup {p}
    /\ last' = [op |-> "free", a |-> p, b |-> 0, ret |-> NULL, msg |-> r.msg]

\* my_free(p).
Free(p) == Step /\ FreeReturns(p, my_free(Machine, p))

\* The call my_realloc(p, size) returned r.
ReallocReturns(p, size, r) ==
    /\ Commit(r.s)
    /\ Reallocated(p, r.ret, size)
    /\ last' = [op |-> "realloc", a |-> p, b |-> size, ret |-> r.ret,
                msg |-> "none"]

\* my_realloc(p, size).
Realloc(p, size) == Step /\ ReallocReturns(p, size, my_realloc(Machine, p, size))

\* The client stores word v at word i of an allocation it holds, inside the
\* bytes it asked for.
Write(p, i, v) ==
    /\ Step
    /\ 8 * i + 8 <= live[p]
    /\ Commit(Store(Machine, p + 8 * i, v))
    /\ UNCHANGED <<live, released>>
    /\ last' = [op |-> "write", a |-> p, b |-> i, ret |-> NULL, msg |-> "none"]

\* The client at large: any call with any argument on the pointers it holds
\* or on NULL, and stores into the payloads it holds.
Next ==
    \/ \E size \in MallocSizes : nops < MaxOps /\ Malloc(size)
    \/ \E c \in CallocArgs : nops < MaxOps /\ Calloc(c[1], c[2])
    \/ \E p \in DOMAIN live \cup {NULL} : nops < MaxOps /\ Free(p)
    \/ \E p \in DOMAIN live : \E size \in ReallocSizes :
           nops < MaxOps /\ Realloc(p, size)
    \/ nops < MaxOps /\ Realloc(NULL, 200)
    \/ \E p \in DOMAIN live : \E i \in WriteIdx : \E v \in UserVals :
           nops < MaxOps /\ Write(p, i, v)

Spec == Init /\ [][Next]_vars

\* Calls only, each on a pointer the client holds: the client stores nothing.
NextCalls ==
    \/ \E size \in MallocSizes : nops < MaxCalls /\ Malloc(size)
    \/ \E c \in CallocArgs : nops < MaxCalls /\ Calloc(c[1], c[2])
    \/ \E p \in DOMAIN live : nops < MaxCalls /\ Free(p)
    \/ \E p \in DOMAIN live : \E size \in ReallocSizes :
           nops < MaxCalls /\ Realloc(p, size)

SpecCalls == Init /\ [][NextCalls]_vars

\* Allocations and releases only: my_malloc and my_calloc of any size, and
\* my_free of each pointer once.
AllocFreeSizes == {1, 300, HEAP_SIZE - SizeofBlock - SizeofSizeT, HEAP_SIZE,
                   SIZE_MAX}

NextAllocFree ==
    \/ \E size \in AllocFreeSizes : nops < MaxSeqOps /\ Malloc(size)
    \/ \E c \in CallocArgs : nops < MaxSeqOps /\ Calloc(c[1], c[2])
    \/ \E p \in DOMAIN live : nops < MaxSeqOps /\ Free(p)

SpecAllocFree == Init /\ [][NextAllocFree]_vars

\* Allocations of ordinary sizes and releases, also of pointers already
\* released.
ReuseSizes == {8, 32}

NextReuse ==
    \/ \E size \in ReuseSizes : nops < MaxSeqOps /\ Malloc(size)
    \/ \E p \in DOMAIN live \cup released : nops < MaxSeqOps /\ Free(p)

SpecReuse == Init /\ [][NextReuse]_vars

\* Pointers that are not in [heap, heap + HEAP_SIZE): just below the arena,
\* just past its end, and past its end by one header.
StrayPtrs == {HeapBase - ALIGN, HeapEnd, HeapEnd + SizeofBlock}

\* Allocations, and my_free and my_realloc of NULL and of pointers outside
\* the arena.
NextStray ==
    \/ \E size \in ReuseSizes : nops < MaxCalls /\ Malloc(size)
    \/ \E p \in DOMAIN live \cup {NULL} \cup StrayPtrs :
           nops < MaxCalls /\ Free(p)
    \/ \E p \in StrayPtrs : \E size \in ReuseSizes :
           nops < MaxCalls /\ Realloc(p, size)

SpecStray == Init /\ [][NextStray]_vars

\* The requests of the advanced test program, 60, 300 and 50 bytes, in any
\* order, with releases and with stores into the payloads held.
TestSizes == {50, 60, 300}

NextTest ==
    \/ \E size \in TestSizes : nops < MaxCalls /\ Malloc(size)
    \/ \E p \in DOMAIN live : nops < MaxCalls /\ Free(p)
    \/ \E p \in DOMAIN live : \E i \in WriteIdx : \E v \in UserVals :
           nops < MaxCalls /\ Write(p, i, v)

SpecTest == Init /\ [][NextTest]_vars

----------------------------------------------------------------------------
(* What the claims speak about *)

Hdr(b, off) == Rd(mem, b + off)
BlockSize(b) == Hdr(b, OFF_SIZE)
IsFree(b) == Hdr(b, OFF_FREE) # 0
HeaderOf(p) == p - SizeofBlock
FooterAddr(b) == b + SizeofBlock + BlockSize(b)

\* The physical chain in arena m: the headers reached from b through
\* next_phys, as far as the links stay inside the arena and do not repeat.
RECURSIVE ChainFrom(_, _, _)
ChainFrom(m, b, seen) ==
    IF b = NULL \/ ~ValidWord(b) \/ ~ValidWord(b + OFF_NEXT_FREE) \/ b \in seen
    THEN << >>
    ELSE <<b>> \o ChainFrom(m, Rd(m, b + OFF_NEXT_PHYS), seen \cup {b})

Chain == ChainFrom(mem, heap_start, {})
ChainSet == {Chain[i] : i \in DOMAIN Chain}

\* The blocks linked from b through next_free in arena m, as far as the links
\* stay inside the arena and do not repeat.
RECURSIVE ListFrom(_, _, _)
ListFrom(m, b, seen) ==
    IF b = NULL \/ ~ValidWord(b) \/ ~ValidWord(b + OFF_NEXT_FREE) \/ b \in seen
    THEN << >>
    ELSE <<b>> \o ListFrom(m, Rd(m, b + OFF_NEXT_FREE), seen \cup {b})

BinList(i) == ListFrom(mem, bin[i], {})

\* A block as the claims see it: its address, size, free flag and footer.
BlockView(m, b) ==
    [at |-> b, size |-> Rd(m, b + OFF_SIZE), free |-> Rd(m, b + OFF_FREE) # 0,
     footer |-> Rd(m, b + SizeofBlock + Rd(m, b + OFF_SIZE))]

\* The physical chain and every bin list of the allocator in arena m with
\* list heads bn and first block hs.
Layout(m, bn, hs) ==
    [chain |-> [i \in DOMAIN ChainFrom(m, hs, {}) |->
                   BlockView(m, ChainFrom(m, hs, {})[i])],
     bins |-> [i \in 0..(NUM_BINS - 1) |-> ListFrom(m, bn[i], {})]]

LivePtrs == DOMAIN live

\* In arena m, the payload of every allocation the client holds now, over
\* the size its block records now.
LivePayloads(m) ==
    [p \in LivePtrs |->
        [a \in {x \in DOMAIN m : x >= p /\ x < p + BlockSize(HeaderOf(p))}
            |-> m[a]]]

\* Byte ranges [lo, hi) that share a byte.
Overlap(lo1, hi1, lo2, hi2) == lo1 < hi2 /\ lo2 < hi1 /\ lo1 < hi1 /\ lo2 < hi2

\* The state is the one a call of the allocator has left.
IsCall == last.op \in {"malloc", "free", "calloc", "realloc"}

PayloadEnd(p) == p + BlockSize(HeaderOf(p))

----------------------------------------------------------------------------
(* The claims *)

\* C1 (no-overlap): in every state a sequence of calls reaches, the payload
\* ranges [p, p + recorded block size) of two distinct live allocations are
\* disjoint, and no live payload range overlaps the header or the footer of
\* a block of the physical chain.
NoOverlap ==
    (crashed = "none" /\ IsCall) =>
        /\ \A p \in LivePtrs : \A q \in LivePtrs :
              p # q => ~Overlap(p, PayloadEnd(p), q, PayloadEnd(q))
        /\ \A p \in LivePtrs : \A b \in ChainSet :
              /\ ~Overlap(p, PayloadEnd(p), b, b + SizeofBlock)
              /\ ~Overlap(p, PayloadEnd(p),
                          FooterAddr(b), FooterAddr(b) + SizeofSizeT)

\* C2 (coalescing closure): after every completed call, no block of the
\* physical chain and its next_phys are both marked free.
NoAdjacentFree ==
    (crashed = "none" /\ IsCall) =>
        \A i \in DOMAIN Chain :
            i + 1 \in DOMAIN Chain => ~(IsFree(Chain[i]) /\ IsFree(Chain[i + 1]))

\* C3 (double-free safety): my_free(p) of a pointer that has been released
\* and not returned again since is reported as a double free and changes
\* nothing: the physical chain, every bin list and every live allocation's
\* payload are as before the call.
DoubleFreeNoOp ==
    [][(last'.op = "free" /\ last'.a \in released /\ last'.a \notin LivePtrs)
          => /\ crashed' = "none"
             /\ last'.msg = "double"
             /\ Layout(mem', bin', heap_start') = Layout(mem, bin, heap_start)
             /\ LivePayloads(mem') = LivePayloads(mem)]_vars

\* The total payload size of the free blocks of the chain; before the first
\* call, that of the block heap_init makes.
RECURSIVE SumFree(_)
SumFree(seq) ==
    IF seq = << >> THEN 0
    ELSE (IF IsFree(Head(seq)) THEN BlockSize(Head(seq)) ELSE 0)
            + SumFree(Tail(seq))

FreeCapacity ==
    IF heap_initialized = 0 THEN HEAP_SIZE - SizeofBlock - SizeofSizeT
    ELSE SumFree(Chain)

\* The allocator before a call, past the initialisation the first call makes.
PreMachine == IF heap_initialized = 0 THEN heap_init(Machine) ELSE Machine

\* The call has returned and has left the physical chain, the bins and the
\* live payloads as they were.
AllocatorUnchanged ==
    /\ crashed' = "none"
    /\ Layout(mem', bin', heap_start')
          = Layout(PreMachine.mem, PreMachine.bin, PreMachine.heap_start)
    /\ LivePayloads(mem') = LivePayloads(PreMachine.mem)

\* C4 (out-of-memory): my_malloc of any value of the size type that is larger
\* than the total free capacity returns NULL and leaves the physical chain,
\* the bins and the live allocations unchanged.
OutOfMemoryFails ==
    [][(last'.op = "malloc" /\ last'.a > FreeCapacity)
          => (last'.ret = NULL /\ AllocatorUnchanged)]_vars

\* C5 (zeroAllocate overflow): my_calloc(count, elemSize) whose product does
\* not fit in the size type returns NULL without allocating: no block is
\* removed, split or marked.
CallocOverflowFails ==
    [][(last'.op = "calloc" /\ last'.a * last'.b > SIZE_MAX)
          => (last'.ret = NULL /\ AllocatorUnchanged)]_vars

\* The arena is one free block of the initial size, alone in the last bin.
SingleFreeBlock ==
    /\ Chain = <<HeapBase>>
    /\ IsFree(HeapBase)
    /\ BlockSize(HeapBase) = HEAP_SIZE - SizeofBlock - SizeofSizeT
    /\ \A i \in 0..(NUM_BINS - 2) : bin[i] = NULL
    /\ BinList(NUM_BINS - 1) = <<HeapBase>>

RoundUp8(n) == ((n + ALIGN - 1) \div ALIGN) * ALIGN

\* C7 (fit correctness): after a successful my_malloc(size) the block's
\* recorded size is at least size rounded up to a multiple of 8, and
\* [p, p + recorded size) lies between the block's header and footer inside
\* the arena.
FitCorrect ==
    (crashed = "none" /\ last.op = "malloc" /\ last.ret # NULL) =>
        /\ BlockSize(HeaderOf(last.ret)) >= RoundUp8(last.a)
        /\ HeaderOf(last.ret) >= HeapBase
        /\ FooterAddr(HeaderOf(last.ret)) + SizeofSizeT <= HeapEnd

\* C8 (alignment): the pointer a successful my_malloc(size), size >= 1,
\* returns is at a multiple of 8 from the arena base, and every header
\* offset and every payload size of the physical chain is a multiple of 8.
AlignedBlocks ==
    (crashed = "none" /\ IsCall) =>
        /\ (last.op = "malloc" /\ last.a >= 1 /\ last.ret # NULL)
              => (last.ret - HeapBase) % ALIGN = 0
        /\ \A b \in ChainSet :
              (b - HeapBase) % ALIGN = 0 /\ BlockSize(b) % ALIGN = 0

Min(a, b) == IF a < b THEN a ELSE b

\* C9 (resize preserves data): a successful my_realloc(p, newSize) of a live
\* p of recorded size old returns q whose block records a size >= newSize,
\* whose first min(old, newSize) bytes are those p held, and the copy stays
\* inside q's payload.
ReallocPreserves ==
    [][(/\ last'.op = "realloc" /\ last'.a \in LivePtrs /\ last'.ret # NULL
        /\ crashed' = "none")
          => LET p == last'.a
                 q == last'.ret
                 old == BlockSize(HeaderOf(p))
                 new == Rd(mem', HeaderOf(q) + OFF_SIZE)
                 n == Min(old, last'.b)
             IN  /\ new >= last'.b
                 /\ \A a \in DOMAIN mem :
                       (a >= p /\ a < p + n) => Rd(mem', a - p + q) = mem[a]
                 /\ \A a \in DOMAIN mem' :
                       (a >= q /\ a < q + n) => Rd(mem, a - q + p) = mem'[a]
                 /\ (q # p => old <= new)]_vars

\* C10 (resize in place): my_realloc(p, newSize) of a live p whose block
\* records a size >= newSize returns p and leaves the allocator's state as
\* it was: the arena, the bin heads, heap_start.
ReallocInPlace ==
    [][(/\ last'.op = "realloc" /\ last'.a \in LivePtrs
        /\ BlockSize(HeaderOf(last'.a)) >= last'.b)
          => /\ last'.ret = last'.a
             /\ mem' = mem /\ bin' = bin /\ heap_start' = heap_start
             /\ heap_initialized' = heap_initialized /\ crashed' = "none"]_vars

\* my_realloc was asked for less than the block of a live pointer records.
ReallocInPlaceWitness ==
    /\ crashed = "none"
    /\ last.op = "realloc"
    /\ last.a \in LivePtrs
    /\ last.ret = last.a
    /\ last.b < BlockSize(HeaderOf(last.a))

\* C11 (resize failure): when my_realloc(p, newSize) needs a new block and
\* the allocation inside it fails, it returns NULL, the block of p is still
\* marked used with its size and payload unchanged (its free flag and size
\* are the ones it had), and the physical chain and the bins are as before
\* the call.
ReallocFailureKeeps ==
    [][(/\ last'.op = "realloc" /\ last'.a \in LivePtrs
        /\ BlockSize(HeaderOf(last'.a)) < last'.b
        /\ my_malloc(Machine, last'.b).s.err = "none"
        /\ my_malloc(Machine, last'.b).ret = NULL)
          => /\ crashed' = "none"
             /\ last'.ret = NULL
             /\ Rd(mem', HeaderOf(last'.a) + OFF_FREE)
                   = Hdr(HeaderOf(last'.a), OFF_FREE)
             /\ Rd(mem', HeaderOf(last'.a) + OFF_SIZE)
                   = BlockSize(HeaderOf(last'.a))
             /\ Layout(mem', bin', heap_start') = Layout(mem, bin, heap_start)
             /\ LivePayloads(mem') = LivePayloads(mem)]_vars

\* my_realloc has failed on a live pointer whose block is too small.
ReallocFailureWitness ==
    /\ crashed = "none"
    /\ last.op = "realloc"
    /\ last.a \in LivePtrs
    /\ last.ret = NULL
    /\ last.b > BlockSize(HeaderOf(last.a))
    /\ ~IsFree(HeaderOf(last.a))

\* The allocator is as it was before the call, or as the initialisation the
\* first call makes leaves it.
SameOrInitialised ==
    /\ crashed' = "none"
    /\ \/ /\ mem' = mem /\ bin' = bin /\ heap_start' = heap_start
          /\ heap_initialized' = heap_initialized
       \/ /\ mem' = PreMachine.mem /\ bin' = PreMachine.bin
          /\ heap_start' = PreMachine.heap_start

\* C12 (null and out-of-range pointers): my_free(NULL) does nothing, and for
\* a non-null pointer outside [heap, heap + HEAP_SIZE) my_free and
\* my_realloc take no action on the allocator's state and leave the
\* allocator usable.
StrayPointerNoOp ==
    [][(\/ last'.op = "free" /\ last'.a = NULL
        \/ /\ last'.op \in {"free", "realloc"}
           /\ last'.a # NULL
           /\ (last'.a < HeapBase \/ last'.a >= HeapEnd))
          => SameOrInitialised]_vars

\* C13 (bin invariant): after every completed operation, every block
\* reachable from bin[i] through next_free is marked free and has
\* size_to_bin(size) = i.
BinInvariant ==
    (crashed = "none" /\ IsCall) =>
        \A i \in 0..(NUM_BINS - 1) : \A k \in DOMAIN BinList(i) :
            /\ IsFree(BinList(i)[k])
            /\ size_to_bin(BlockSize(BinList(i)[k])) = i

\* C14 (boundary tags): after every completed operation, for every block
\* of the physical chain the size stored in the footer at header +
\* sizeof(Block) + size equals the size stored in the header.
FooterMatchesHeader ==
    (crashed = "none" /\ IsCall) =>
        \A b \in ChainSet : Rd(mem, FooterAddr(b)) = BlockSize(b)

\* The invariants of the allocator on a layout L: the chain starts at the
\* arena base and tiles the arena, every footer equals its header's size,
\* every size is a multiple of 8, no two neighbours are both free, every bin
\* entry is a free block of the chain of the bin's size class, and every
\* free block of the chain is in a bin.
WellFormed(L) ==
    /\ Len(L.chain) >= 1
    /\ L.chain[1].at = HeapBase
    /\ L.chain[Len(L.chain)].at + SizeofBlock + L.chain[Len(L.chain)].size
          + SizeofSizeT = HeapEnd
    /\ \A i \in DOMAIN L.chain :
          /\ L.chain[i].footer = L.chain[i].size
          /\ L.chain[i].size % ALIGN = 0
          /\ i + 1 \in DOMAIN L.chain =>
                /\ L.chain[i + 1].at = L.chain[i].at + SizeofBlock
                                          + L.chain[i].size + SizeofSizeT
                /\ ~(L.chain[i].free /\ L.chain[i + 1].free)
          /\ L.chain[i].free =>
                \E j \in DOMAIN L.bins[size_to_bin(L.chain[i].size)] :
                    L.bins[size_to_bin(L.chain[i].size)][j] = L.chain[i].at
    /\ \A k \in 0..(NUM_BINS - 1) : \A j \in DOMAIN L.bins[k] :
          \E i \in DOMAIN L.chain :
              /\ L.chain[i].at = L.bins[k][j]
              /\ L.chain[i].free
              /\ size_to_bin(L.chain[i].size) = k

\* Some block of the chain of layout L is free.
HasFreeBlock(L) == \E i \in DOMAIN L.chain : L.chain[i].free

\* C15 (zero-size request): a my_malloc(0) that returns, whenever a free
\* block exists, returns a non-null pointer to a block marked used that the
\* client does not hold already; and my_free of a pointer my_malloc(0)
\* returned is accepted and leaves the allocator's invariants holding where
\* they held.
ZeroSizeRequest ==
    [][/\ (/\ last'.op = "malloc" /\ last'.a = 0 /\ crashed' = "none"
           /\ HasFreeBlock(Layout(PreMachine.mem, PreMachine.bin,
                                  PreMachine.heap_start)))
             => /\ last'.ret # NULL
                /\ last'.ret \notin LivePtrs
                /\ Rd(mem', HeaderOf(last'.ret) + OFF_FREE) = 0
       /\ (/\ last'.op = "free" /\ last'.a \in LivePtrs
           /\ live[last'.a] = 0 /\ crashed' = "none")
             => /\ last'.msg = "none"
                /\ WellFormed(Layout(mem, bin, heap_start))
                      => WellFormed(Layout(mem', bin', heap_start'))]_vars

\* The bin lists of layout L from bin k on, one after the other: the order
\* in which a search from bin k meets the blocks.
RECURSIVE SearchOrder(_, _)
SearchOrder(L, k) ==
    IF k >= NUM_BINS THEN << >> ELSE L.bins[k] \o SearchOrder(L, k + 1)

\* The first block of seq whose size in arena m is at least size, or NULL.
RECURSIVE FirstAdequate(_, _, _)
FirstAdequate(m, seq, size) ==
    IF seq = << >> THEN NULL
    ELSE IF Rd(m, Head(seq) + OFF_SIZE) >= size THEN Head(seq)
    ELSE FirstAdequate(m, Tail(seq), size)

\* The block first-fit chooses for size in the allocator before the call.
FirstFitChoice(size) ==
    FirstAdequate(PreMachine.mem,
                  SearchOrder(Layout(PreMachine.mem, PreMachine.bin,
                                     PreMachine.heap_start),
                              size_to_bin(size)),
                  size)

\* The free physical neighbours of block b, which a release of b absorbs.
Absorbed(b) ==
    {n \in {Hdr(b, OFF_NEXT_PHYS), Hdr(b, OFF_PREV_PHYS)} :
        n # NULL /\ IsFree(n)}

\* The block that is in a bin once block b is released: its predecessor if
\* that is free, else b.
Survivor(b) ==
    IF Hdr(b, OFF_PREV_PHYS) # NULL /\ IsFree(Hdr(b, OFF_PREV_PHYS))
    THEN Hdr(b, OFF_PREV_PHYS) ELSE b

\* seq without the members of set S.
Except(seq, S) == SelectSeq(seq, LAMBDA x : x \notin S)

Overhead == SizeofBlock + SizeofSizeT

\* Word off of the header of block b before the call, past the
\* initialisation the first call makes.
PreHdr(b, off) == Rd(PreMachine.mem, b + off)

\* The call has split block b, of size S before, for the aligned request R:
\* b has size R and is followed directly by a new free block of size
\* S - R - overhead, at the head of the bin of its size.
HasSplit(b, R, S) ==
    /\ Rd(mem', b + OFF_SIZE) = R
    /\ Rd(mem', b + OFF_NEXT_PHYS) = b + Overhead + R
    /\ Rd(mem', b + Overhead + R + OFF_SIZE) = S - R - Overhead
    /\ Rd(mem', b + Overhead + R + OFF_FREE) # 0
    /\ bin'[size_to_bin(S - R - Overhead)] = b + Overhead + R

\* The call has left block b, of size S before, whole: it keeps its size
\* and its successor.
HasNotSplit(b, S) ==
    /\ Rd(mem', b + OFF_SIZE) = S
    /\ Rd(mem', b + OFF_NEXT_PHYS) = PreHdr(b, OFF_NEXT_PHYS)

\* A my_malloc has returned a block.
MallocTook ==
    last'.op = "malloc" /\ last'.ret # NULL /\ crashed' = "none"

\* C17 (split policy) as the claim states it: my_malloc splits the block of
\* size S it takes for the aligned request R if and only if S - R is
\* strictly greater than header + footer + ALIGN.
SplitPolicyStrict ==
    [][MallocTook =>
          IF PreHdr(HeaderOf(last'.ret), OFF_SIZE) - align8(last'.a)
                > Overhead + ALIGN
          THEN HasSplit(HeaderOf(last'.ret), align8(last'.a),
                        PreHdr(HeaderOf(last'.ret), OFF_SIZE))
          ELSE HasNotSplit(HeaderOf(last'.ret),
                           PreHdr(HeaderOf(last'.ret), OFF_SIZE))]_vars

\* C17 (split policy), amended: my_malloc splits the block of size S it
\* takes for the aligned request R if and only if S - R is at least
\* header + footer + ALIGN; when it splits, the block gets size R and a new
\* free block of size S - R - overhead follows it directly, in the bin of
\* its size; otherwise the block keeps size S and no block is created.
SplitPolicy ==
    [][MallocTook =>
          IF PreHdr(HeaderOf(last'.ret), OFF_SIZE) - align8(last'.a)
                >= Overhead + ALIGN
          THEN HasSplit(HeaderOf(last'.ret), align8(last'.a),
                        PreHdr(HeaderOf(last'.ret), OFF_SIZE))
          ELSE HasNotSplit(HeaderOf(last'.ret),
                           PreHdr(HeaderOf(last'.ret), OFF_SIZE))]_vars

\* my_malloc has split a block whose remainder was exactly header + footer
\* + ALIGN: the new free block has ALIGN bytes of payload.
SplitWitness ==
    /\ crashed = "none"
    /\ last.op = "malloc" /\ last.ret # NULL
    /\ BlockSize(HeaderOf(last.ret)) = align8(last.a)
    /\ Hdr(HeaderOf(last.ret), OFF_NEXT_PHYS)
          = HeaderOf(last.ret) + Overhead + align8(last.a)
    /\ IsFree(Hdr(HeaderOf(last.ret), OFF_NEXT_PHYS))
    /\ BlockSize(Hdr(HeaderOf(last.ret), OFF_NEXT_PHYS)) = ALIGN

\* The allocator inside my_free(p) after the first if of coalesce: the block
\* of p is marked free and has merged with its successor.
AfterForward(p) ==
    coalesce_next(Store(Machine, HeaderOf(p) + OFF_FREE, 1), HeaderOf(p))

\* Block b is in the list of bin k in arena m with list heads bn.
InBin(m, bn, k, b) ==
    \E j \in DOMAIN ListFrom(m, bn[k], {}) : ListFrom(m, bn[k], {})[j] = b

\* my_free(p) on a block B whose physical neighbours P and N are both free
\* has returned.
FreedBetweenFree(p) ==
    /\ last'.op = "free" /\ last'.a = p /\ p \in LivePtrs
    /\ ~IsFree(HeaderOf(p))
    /\ Hdr(HeaderOf(p), OFF_PREV_PHYS) # NULL
    /\ IsFree(Hdr(HeaderOf(p), OFF_PREV_PHYS))
    /\ Hdr(HeaderOf(p), OFF_NEXT_PHYS) # NULL
    /\ IsFree(Hdr(HeaderOf(p), OFF_NEXT_PHYS))
    /\ crashed' = "none"

\* After the forward merge of B with N, before the backward merge: B has
\* N's size and overhead added, N is in no bin, and P has its size and is
\* still in the bin of that size.
ForwardFirst(B, P, N) ==
    /\ AfterForward(B + SizeofBlock).err = "none"
    /\ Rd(AfterForward(B + SizeofBlock).mem, B + OFF_SIZE)
          = BlockSize(B) + Overhead + BlockSize(N)
    /\ Rd(AfterForward(B + SizeofBlock).mem, B + OFF_NEXT_PHYS)
          = Hdr(N, OFF_NEXT_PHYS)
    /\ Rd(AfterForward(B + SizeofBlock).mem, P + OFF_SIZE) = BlockSize(P)
    /\ InBin(AfterForward(B + SizeofBlock).mem,
             AfterForward(B + SizeofBlock).bin, size_to_bin(BlockSize(P)), P)
    /\ \A k \in 0..(NUM_BINS - 1) :
          ~InBin(AfterForward(B + SizeofBlock).mem,
                 AfterForward(B + SizeofBlock).bin, k, N)

\* The end of the call: one block at P of the summed size, linked to P's
\* old predecessor and N's old successor in both directions, with its
\* footer, at the head of the bin of the final size and in no other bin;
\* every bin otherwise holds what it held, less P and N.
MergedIntoOne(B, P, N, total) ==
    /\ Rd(mem', P + OFF_SIZE) = total
    /\ Rd(mem', P + OFF_FREE) # 0
    /\ Rd(mem', P + SizeofBlock + total) = total
    /\ Rd(mem', P + OFF_PREV_PHYS) = Hdr(P, OFF_PREV_PHYS)
    /\ Hdr(P, OFF_PREV_PHYS) # NULL
          => Rd(mem', Hdr(P, OFF_PREV_PHYS) + OFF_NEXT_PHYS) = P
    /\ Rd(mem', P + OFF_NEXT_PHYS) = Hdr(N, OFF_NEXT_PHYS)
    /\ Hdr(N, OFF_NEXT_PHYS) # NULL
          => Rd(mem', Hdr(N, OFF_NEXT_PHYS) + OFF_PREV_PHYS) = P
    /\ \A k \in 0..(NUM_BINS - 1) :
          ListFrom(mem', bin'[k], {})
            = (IF k = size_to_bin(total) THEN <<P>> ELSE << >>)
                \o Except(BinList(k), {P, N})

\* C18 (coalesce order and result): when a my_free that returns releases a
\* block B whose physical predecessor P and successor N are both free, the
\* forward merge
\* comes first (B absorbs N while P is untouched and still in the bin of its
\* size), and the call ends with one block at P's address of size P.size +
\* B.size + N.size + 2 * (header + footer), linked to P's old predecessor
\* and N's old successor in both directions and inserted once, in the bin of
\* the final size.
CoalesceBothSides ==
    [][\A p \in LivePtrs :
          FreedBetweenFree(p) =>
              /\ last'.msg = "none"
              /\ ForwardFirst(HeaderOf(p), Hdr(HeaderOf(p), OFF_PREV_PHYS),
                              Hdr(HeaderOf(p), OFF_NEXT_PHYS))
              /\ MergedIntoOne(HeaderOf(p), Hdr(HeaderOf(p), OFF_PREV_PHYS),
                               Hdr(HeaderOf(p), OFF_NEXT_PHYS),
                               BlockSize(Hdr(HeaderOf(p), OFF_PREV_PHYS))
                                 + BlockSize(HeaderOf(p))
                                 + BlockSize(Hdr(HeaderOf(p), OFF_NEXT_PHYS))
                                 + 2 * Overhead)]_vars

\* The sizes of the free blocks of the allocator before the call: of the
\* blocks of the physical chain that are marked free and of the blocks of
\* every bin list.
FreeSizes ==
    {Layout(PreMachine.mem, PreMachine.bin, PreMachine.heap_start).chain[i].size :
        i \in {j \in DOMAIN Layout(PreMachine.mem, PreMachine.bin,
                                   PreMachine.heap_start).chain :
                  Layout(PreMachine.mem, PreMachine.bin,
                         PreMachine.heap_start).chain[j].free}}
    \cup {Rd(PreMachine.mem, b + OFF_SIZE) :
            b \in {SearchOrder(Layout(PreMachine.mem, PreMachine.bin,
                                      PreMachine.heap_start), 0)[j] :
                     j \in DOMAIN SearchOrder(Layout(PreMachine.mem,
                                                     PreMachine.bin,
                                                     PreMachine.heap_start),
                                              0)}}

RECURSIVE SumBlocks(_)
SumBlocks(seq) ==
    IF seq = << >> THEN 0
    ELSE BlockSize(Head(seq)) + Overhead + SumBlocks(Tail(seq))

\* C20 (arena tiling): after initialisation and every completed call, the
\* physical chain from the arena base tiles the arena: each successor's
\* header is at header + sizeof(Block) + size + sizeof(size_t) and points
\* back to its predecessor, the first block has prev_phys NULL, the last has
\* next_phys NULL, and the blocks' sizes with their headers and footers add
\* up to HEAP_SIZE.
ArenaTiling ==
    (crashed = "none" /\ IsCall /\ heap_initialized = 1) =>
        /\ heap_start = HeapBase
        /\ Len(Chain) >= 1
        /\ Hdr(Chain[1], OFF_PREV_PHYS) = NULL
        /\ Hdr(Chain[Len(Chain)], OFF_NEXT_PHYS) = NULL
        /\ \A i \in DOMAIN Chain :
              i + 1 \in DOMAIN Chain =>
                  /\ Chain[i + 1] = Chain[i] + Overhead + BlockSize(Chain[i])
                  /\ Hdr(Chain[i + 1], OFF_PREV_PHYS) = Chain[i]
        /\ SumBlocks(Chain) = HEAP_SIZE

\* The blocks of bin list i, as a set.
BinSet(i) == {BinList(i)[k] : k \in DOMAIN BinList(i)}

\* C21 (free-list consistency): after every completed call, the blocks
\* reachable from the six bin heads are the blocks marked free in the
\* physical chain, no block is in two bins, and every list ends in NULL
\* without a cycle, its head has prev_free NULL and the next_free of every
\* block points to a block whose prev_free points back.
FreeListConsistent ==
    (crashed = "none" /\ IsCall /\ heap_initialized = 1) =>
        /\ UNION {BinSet(i) : i \in 0..(NUM_BINS - 1)}
              = {b \in ChainSet : IsFree(b)}
        /\ \A i \in 0..(NUM_BINS - 1) : \A j \in 0..(NUM_BINS - 1) :
              i # j => BinSet(i) \cap BinSet(j) = {}
        /\ \A i \in 0..(NUM_BINS - 1) :
              /\ bin[i] # NULL =>
                    /\ BinList(i) # << >>
                    /\ Hdr(bin[i], OFF_PREV_FREE) = NULL
                    /\ Hdr(BinList(i)[Len(BinList(i))], OFF_NEXT_FREE) = NULL
              /\ \A k \in DOMAIN BinList(i) :
                    k + 1 \in DOMAIN BinList(i) =>
                        Hdr(BinList(i)[k + 1], OFF_PREV_FREE) = BinList(i)[k]

\* The allocator after my_free of the pointer r.ret that my_malloc has
\* returned, r.s being the state my_malloc left.
Released(r) == my_free(r.s, r.ret).s

\* The addresses, sizes and free flags of the blocks of chain c in arena m.
ShapeOf(m, c) ==
    [i \in DOMAIN c |->
        [at |-> c[i], size |-> Rd(m, c[i] + OFF_SIZE),
         free |-> Rd(m, c[i] + OFF_FREE) # 0]]

\* The addresses, sizes and free flags of the physical chain of state s.
ChainShape(s) == ShapeOf(s.mem, ChainFrom(s.mem, s.heap_start, {}))

\* The members of sequence seq.
Members(seq) == {seq[j] : j \in DOMAIN seq}

\* The blocks of each bin list of state s, as sets.
BinSets(s) ==
    [k \in 0..(NUM_BINS - 1) |-> Members(ListFrom(s.mem, s.bin[k], {}))]

\* A state equals the state before in chain shape and in bin contents.
SameShape(after, before) ==
    /\ after.err = "none"
    /\ ChainShape(after) = ChainShape(before)
    /\ BinSets(after) = BinSets(before)

\* C22 (allocate/release round trip): in every state a sequence of calls
\* reaches, a my_malloc(x) that returns a pointer followed at once by
\* my_free of that pointer returns, and leaves the physical chain with the
\* block addresses, sizes and free flags it had before the my_malloc and
\* every bin with the set of blocks it had.
RoundTripRestores ==
    (crashed = "none" /\ (IsCall \/ last.op = "start")) =>
        \A x \in MallocSizes :
            LET r == my_malloc(Machine, x)
            IN  (r.ret # NULL /\ r.s.err = "none")
                    => SameShape(Released(r), PreMachine)

\* Pointers inside the arena that no allocation returned: the arena base,
\* the last word below the first payload, and the last word of the arena.
BasePtrs == {HeapBase, HeapBase + SizeofBlock - ALIGN, HeapEnd - ALIGN}

\* Allocations, and my_free of live pointers and of pointers inside the
\* arena that were never allocated.
NextBase ==
    \/ \E size \in ReuseSizes : nops < MaxCalls /\ Malloc(size)
    \/ \E p \in DOMAIN live \cup BasePtrs : nops < MaxCalls /\ Free(p)

SpecBase == Init /\ [][NextBase]_vars

\* The pointer passes the range check of my_free.
PassesRangeCheck(p) == p # NULL /\ p >= HeapBase /\ p < HeapEnd

\* C23 (in-arena header access): for every my_free of a non-null pointer
\* that passes the range check, the header at ptr - sizeof(Block) lies
\* entirely inside the arena, and the call touches no memory outside the
\* arena.
HeaderInArena ==
    [][(last'.op = "free" /\ PassesRangeCheck(last'.a)) =>
           /\ HeaderOf(last'.a) >= HeapBase
           /\ HeaderOf(last'.a) + SizeofBlock <= HeapEnd
           /\ crashed' # "fault"]_vars

====
